---- MODULE Spec2Model ----
(***************************************************************************)
(* Model of the PDF analysis backend (src/backend.py): the /analyze       *)
(* request handler with its upload area, and the pure pipeline stages it  *)
(* calls (image extraction, chart detection, entity extraction,          *)
(* summarisation, structure analysis).                                    *)
(*                                                                         *)
(* Text is a sequence of one-character strings.  An external library      *)
(* call whose result the code cannot influence (the spaCy recognizer and  *)
(* sentence segmenter, Tesseract, the PDF parser) is an input carried by  *)
(* the document it is applied to.                                         *)
(***************************************************************************)
EXTENDS Integers, Sequences, FiniteSets, TLC

VARIABLES
    uploads,    \* the upload area: sanitized file name -> content of the file
    pc,         \* per request: its position in analyze_pdf
    req,        \* per request: what the client submitted
    local,      \* per request: the local variables of analyze_pdf
    response,   \* per request: how the request ended
    arg,        \* the argument of the pipeline stage under test
    ret,        \* its return value
    phase       \* "idle" | "called" | "returned"

vars == <<uploads, pc, req, local, response, arg, ret, phase>>

None == "None"

----------------------------------------------------------------------------
(* Characters and the str / re primitives the code uses *)

UpperChars == {"A","B","C","D","E","F","G","H","I","J","K","L","M",
               "N","O","P","Q","R","S","T","U","V","W","X","Y","Z"}
LowerChars == {"a","b","c","d","e","f","g","h","i","j","k","l","m",
               "n","o","p","q","r","s","t","u","v","w","x","y","z"}
DigitChars == {"0","1","2","3","4","5","6","7","8","9"}
SpaceChars == {" ", "\n", "\t"}
WordChars  == UpperChars \cup LowerChars \cup DigitChars \cup {"_"}
KeptPunct  == {".", ",", ";", ":", "!", "?", "(", ")", "-"}

UpperSeq == <<"A","B","C","D","E","F","G","H","I","J","K","L","M",
              "N","O","P","Q","R","S","T","U","V","W","X","Y","Z">>
LowerSeq == <<"a","b","c","d","e","f","g","h","i","j","k","l","m",
              "n","o","p","q","r","s","t","u","v","w","x","y","z">>

Min(a, b) == IF a <= b THEN a ELSE b

\* s[:n]
Take(s, n) == SubSeq(s, 1, Min(n, Len(s)))

\* s[n:]
Drop(s, n) == SubSeq(s, Min(n, Len(s)) + 1, Len(s))

\* c * n
Rep(c, n) == [i \in 1..n |-> c]

\* str.lower() on one character
LowerChar(c) ==
    IF c \in UpperChars
    THEN LowerSeq[CHOOSE i \in 1..26 : UpperSeq[i] = c]
    ELSE c

\* str.lower()
Lower(s) == [i \in 1..Len(s) |-> LowerChar(s[i])]

\* str.strip()
RECURSIVE LStrip(_)
LStrip(s) == IF s # <<>> /\ s[1] \in SpaceChars THEN LStrip(Tail(s)) ELSE s
RECURSIVE RStrip(_)
RStrip(s) ==
    IF s # <<>> /\ s[Len(s)] \in SpaceChars
    THEN RStrip(SubSeq(s, 1, Len(s) - 1))
    ELSE s
Strip(s) == RStrip(LStrip(s))

\* str.isupper(): some cased character, and no lower-case one
IsUpper(s) ==
    /\ \E i \in 1..Len(s) : s[i] \in UpperChars
    /\ \A i \in 1..Len(s) : s[i] \notin LowerChars

\* str.split('\n')
RECURSIVE SplitLines(_)
SplitLines(s) ==
    IF \E i \in 1..Len(s) : s[i] = "\n"
    THEN LET i == CHOOSE k \in 1..Len(s) :
                     s[k] = "\n" /\ \A j \in 1..(k - 1) : s[j] # "\n"
         IN <<SubSeq(s, 1, i - 1)>> \o SplitLines(SubSeq(s, i + 1, Len(s)))
    ELSE <<s>>

\* the length of the longest prefix of s made of characters of class cls
Span(s, cls) ==
    LET other == {i \in 1..Len(s) : s[i] \notin cls}
    IN IF other = {} THEN Len(s)
       ELSE (CHOOSE i \in other : \A j \in other : i <= j) - 1

\* re.match(r'^\d+$', s)
AllDigits(s) == s # <<>> /\ \A i \in 1..Len(s) : s[i] \in DigitChars

\* re.match(r'^[0-9]+\.\s+[A-Z]', s): an enumerated prefix; the rest is free
MatchEnumerated(s) ==
    LET d  == Span(s, DigitChars)
        r1 == Drop(s, d)
        r2 == IF r1 # <<>> THEN Tail(r1) ELSE <<>>
        w  == Span(r2, SpaceChars)
        r3 == Drop(r2, w)
    IN /\ d >= 1
       /\ r1 # <<>> /\ r1[1] = "."
       /\ w >= 1
       /\ r3 # <<>> /\ r3[1] \in UpperChars

\* one [A-Z][a-z]+ word at the head of s: its length, 0 when there is none
TitleWord(s) ==
    IF s # <<>> /\ s[1] \in UpperChars /\ Span(Tail(s), LowerChars) >= 1
    THEN 1 + Span(Tail(s), LowerChars)
    ELSE 0

\* s matches (\s+[A-Z][a-z]+){0,k}$
RECURSIVE MatchTitleTail(_, _)
MatchTitleTail(s, k) ==
    \/ s = <<>>
    \/ /\ k > 0
       /\ Span(s, SpaceChars) >= 1
       /\ LET r == Drop(s, Span(s, SpaceChars))
          IN /\ TitleWord(r) >= 1
             /\ MatchTitleTail(Drop(r, TitleWord(r)), k - 1)

\* re.match(r'^[A-Z][a-z]+(\s+[A-Z][a-z]+){0,3}$', s)
MatchTitleCase(s) ==
    /\ TitleWord(s) >= 1
    /\ MatchTitleTail(Drop(s, TitleWord(s)), 3)

\* len(re.findall(r'\b\w+\b', s)): the number of maximal runs of word characters
CountWords(s) ==
    Cardinality({i \in 1..Len(s) :
                   s[i] \in WordChars /\ (i = 1 \/ s[i - 1] \notin WordChars)})

----------------------------------------------------------------------------
(* clean_text *)

\* re.sub(r'\s+', ' ', text)
CollapseSpace(s) ==
    LET kept == SelectSeq([i \in 1..Len(s) |-> i],
                          LAMBDA i : \/ s[i] \notin SpaceChars
                                     \/ i = 1
                                     \/ s[i - 1] \notin SpaceChars)
    IN [j \in 1..Len(kept) |->
          IF s[kept[j]] \in SpaceChars THEN " " ELSE s[kept[j]]]

\* re.sub(r'[^\w\s.,;:!?()-]', '', text)
StripSpecial(s) ==
    SelectSeq(s, LAMBDA c : c \in WordChars \cup SpaceChars \cup KeptPunct)

clean_text(text) == Strip(StripSpecial(CollapseSpace(text)))

----------------------------------------------------------------------------
(* analyze_document_structure *)

HeadingMaxLen == 100

\* the condition of the `if` on a stripped line; Python binds `and` tighter
\* than `or`, so the length test guards the isupper() test alone
IsHeadingLine(line) ==
    \/ (Len(line) > 0 /\ Len(line) < HeadingMaxLen /\ IsUpper(line))
    \/ MatchEnumerated(line)
    \/ MatchTitleCase(line)

\* the inner loop over the lines of one page: the sections closed so far and
\* current_section (the empty sequence while it is None)
RECURSIVE ScanLines(_, _, _)
ScanLines(lines, page, st) ==
    IF lines = <<>> THEN st
    ELSE LET line == Strip(Head(lines))
             nxt  == IF IsHeadingLine(line)
                     THEN [sections |-> st.sections \o st.current,
                           current  |-> <<[heading |-> line, page |-> page]>>]
                     ELSE st
         IN ScanLines(Tail(lines), page, nxt)

\* the outer loop over the pages, from page number `page` on
RECURSIVE ScanPages(_, _, _)
ScanPages(pages, page, st) ==
    IF pages = <<>> THEN st
    ELSE LET s2 == ScanLines(SplitLines(Head(pages)), page,
                             [sections |-> st.sections, current |-> st.current])
         IN ScanPages(Tail(pages), page + 1,
                      [sections |-> s2.sections,
                       current  |-> s2.current,
                       words    |-> st.words + CountWords(Head(pages)),
                       combined |-> st.combined \o Head(pages)])

analyze_document_structure(text_by_page) ==
    LET st == ScanPages(text_by_page, 1,
                        [sections |-> <<>>, current |-> <<>>,
                         words |-> 0, combined |-> <<>>])
    IN [structure |->
            [total_pages |-> Len(text_by_page),
             sections |-> st.sections \o st.current,
             estimated_word_count |-> st.words],
        combined_text |-> st.combined]

----------------------------------------------------------------------------
(* The spaCy pipeline object `nlp`.  What the recognizer and the sentence  *)
(* segmenter find in a text is outside the code's control: `oracle.ents`   *)
(* is the sequence of entities they yield and `oracle.cuts` the set of     *)
(* positions of the text at which a sentence ends.                         *)

\* the sorted sentence-end positions of a text of length n
SortedEnds(cuts, n) ==
    SelectSeq([i \in 1..n |-> i], LAMBDA i : i \in cuts \/ i = n)

\* doc.sents, each as str(s): the text of the span, without the white space
\* that separates it from its neighbours
RECURSIVE SpansOf(_, _, _)
SpansOf(text, ends, start) ==
    IF ends = <<>> THEN <<>>
    ELSE <<Strip(SubSeq(text, start, Head(ends)))>>
             \o SpansOf(text, Tail(ends), Head(ends) + 1)

\* nlp(text): the spaCy Doc
nlp(text, oracle) ==
    [text  |-> text,
     ents  |-> oracle.ents,
     sents |-> SpansOf(text,
                       SortedEnds({c \in oracle.cuts : text[c] \notin SpaceChars},
                                  Len(text)),
                       1)]

\* " ".join(parts)
RECURSIVE JoinSpace(_)
JoinSpace(parts) ==
    IF parts = <<>> THEN <<>>
    ELSE IF Len(parts) = 1 THEN Head(parts)
         ELSE Head(parts) \o <<" ">> \o JoinSpace(Tail(parts))

----------------------------------------------------------------------------
(* extract_entities *)

EntityTextLimit == 100000

\* the key without the lower-casing
EntityKeyCaseSensitive(ent) == <<ent.text, ent.label>>

\* entity_key = (ent.text.lower(), ent.label_)
EntityKey(ent) == <<Lower(ent.text), ent.label>>

\* the loop over doc.ents: `entities` is the result so far, `seen` the keys
RECURSIVE EntityLoop(_, _, _)
EntityLoop(ents, entities, seen) ==
    IF ents = <<>> THEN entities
    ELSE LET ent == Head(ents)
             entity_key == EntityKey(ent)
         IN IF Len(Strip(ent.text)) <= 1
            THEN EntityLoop(Tail(ents), entities, seen)
            ELSE IF AllDigits(Strip(ent.text))
            THEN EntityLoop(Tail(ents), entities, seen)
            ELSE IF entity_key \in seen
            THEN EntityLoop(Tail(ents), entities, seen)
            ELSE EntityLoop(Tail(ents),
                            Append(entities,
                                   [text |-> ent.text, label |-> ent.label]),
                            seen \cup {entity_key})

\* doc = nlp(clean_text(text[:100000]))
EntityDoc(text, oracle) == nlp(clean_text(Take(text, EntityTextLimit)), oracle)

extract_entities(text, oracle) ==
    LET doc == EntityDoc(text, oracle)
    IN EntityLoop(doc.ents, <<>>, {})

----------------------------------------------------------------------------
(* summarize_text *)

SummaryTextLimit  == 10000
SummarySentences  == 5
SummaryMinLen     == 100
SummarySourceLen  == 100
SummaryFallbackLen == 300
Ellipsis == <<".", ".", ".">>

\* the fallback test with `or` in place of `and`
summarize_text_or(text, oracle) ==
    LET clean   == clean_text(text)
        doc     == nlp(Take(clean, SummaryTextLimit), oracle)
        summary == JoinSpace(Take(doc.sents, SummarySentences))
    IN IF Len(summary) < SummaryMinLen \/ Len(clean) > SummarySourceLen
       THEN Take(clean, SummaryFallbackLen) \o Ellipsis
       ELSE summary

summarize_text(text, oracle) ==
    LET clean   == clean_text(text)
        doc     == nlp(Take(clean, SummaryTextLimit), oracle)
        summary == JoinSpace(Take(doc.sents, SummarySentences))
    IN IF Len(summary) < SummaryMinLen /\ Len(clean) > SummarySourceLen
       THEN Take(clean, SummaryFallbackLen) \o Ellipsis
       ELSE summary

----------------------------------------------------------------------------
(* Bitmaps.  A PIL image is [mode, h, w, px]: px[r][c] is the tuple of the  *)
(* 8-bit band values of the pixel in row r, column c.                      *)

ByteRange == 256

\* the number of bands of a PIL mode
Bands(mode) ==
    CASE mode = "L"    -> 1
      [] mode = "P"    -> 1
      [] mode = "LA"   -> 2
      [] mode = "RGB"  -> 3
      [] mode = "RGBA" -> 4
      [] mode = "CMYK" -> 4

\* np.array(image).shape: one-band images give a 2-D array
NpShape(image) ==
    IF Bands(image.mode) = 1
    THEN <<image.h, image.w>>
    ELSE <<image.h, image.w, Bands(image.mode)>>

RECURSIVE SumSeq(_)
SumSeq(s) == IF s = <<>> THEN 0 ELSE Head(s) + SumSeq(Tail(s))

\* one element of np.abs(np.diff(a)) on a uint8 array: the difference wraps
\* modulo 256 and np.abs leaves an unsigned value as it is
DiffU8(a, b) == (b - a) % ByteRange

\* np.sum(np.abs(np.diff(arr, axis=0))): between vertically adjacent pixels
EdgesAxis0(arr, h, w, n) ==
    SumSeq([r \in 1..(h - 1) |->
              SumSeq([i \in 1..(w * n) |->
                        LET c == ((i - 1) \div n) + 1
                            k == ((i - 1) % n) + 1
                        IN DiffU8(arr[r][c][k], arr[r + 1][c][k])])])

\* np.sum(np.abs(np.diff(arr, axis=1))): between horizontally adjacent pixels
EdgesAxis1(arr, h, w, n) ==
    SumSeq([r \in 1..h |->
              SumSeq([i \in 1..((w - 1) * n) |->
                        LET c == ((i - 1) \div n) + 1
                            k == ((i - 1) % n) + 1
                        IN DiffU8(arr[r][c][k], arr[r][c + 1][k])])])

\* edges_h / (edges_v + 1e-10) > p/q, for integer sums: q*eh > p*ev + p*1e-10,
\* which for integers (and p*1e-10 < 1) is q*eh > p*ev
RatioAbove(eh, ev, p, q) == q * eh > p * ev

\* edges_h / (edges_v + 1e-10) < p/q: q*eh < p*ev + p*1e-10, that is
\* q*eh <= p*ev
RatioBelow(eh, ev, p, q) == q * eh <= p * ev

MaxColors == 50

\* the heuristic of detect_charts on the array, after the shape tests
ClassifyArray(arr, h, w, n) ==
    LET unique_colors == Cardinality({arr[r][c] : r \in 1..h, c \in 1..w})
        edges_h == EdgesAxis0(arr, h, w, n)
        edges_v == EdgesAxis1(arr, h, w, n)
        is_chart ==
            /\ unique_colors < MaxColors
            /\ RatioAbove(edges_h, edges_v, 1, 2)
            /\ RatioBelow(edges_h, edges_v, 2, 1)
        chart_type ==
            IF ~is_chart THEN None
            ELSE IF RatioAbove(edges_h, edges_v, 6, 5) THEN "bar_chart"
            ELSE IF RatioBelow(edges_h, edges_v, 4, 5) THEN "line_chart"
            ELSE "other_chart"
    IN <<is_chart, chart_type>>

\* detect_charts(image); `raises` says that the array computation raises
\* (caught by the function's own except clause)
detect_charts(image, raises) ==
    LET shape == NpShape(image)
    IN IF raises THEN <<FALSE, None>>
       ELSE IF Len(shape) = 2 THEN <<FALSE, None>>
       ELSE IF shape[3] = 1 THEN <<FALSE, None>>
       ELSE IF shape[3] = 4
            THEN ClassifyArray([r \in 1..image.h |-> [c \in 1..image.w |->
                                   SubSeq(image.px[r][c], 1, 3)]],
                               image.h, image.w, 3)
            ELSE ClassifyArray(image.px, image.h, image.w, shape[3])

----------------------------------------------------------------------------
(* Documents.  The bytes of an upload are [valid, pages, oracle]: `valid`   *)
(* says whether fitz.open accepts them; each page has its text and its     *)
(* embedded images; an embedded image is [fault, image, ext, bbox, ocr],   *)
(* where `fault` names the step of its processing that raises ("none" for  *)
(* an image every step accepts):                                           *)
(*   "decode"  doc.extract_image / Image.open (corrupt data, codec)        *)
(*   "bbox"    page.get_image_bbox                                         *)
(*   "ocr"     pytesseract.image_to_string                                 *)
(*   "reopen"  Image.open of the PNG in analyze_pdf                        *)
(*   "numpy"   the array computation inside detect_charts                  *)

\* MULDIV255 of Pillow: a * b / 255, rounded
MulDiv255(a, b) == (((a * b + 128) \div 256) + (a * b + 128)) \div 256

Clip8(v) == IF v < 0 THEN 0 ELSE IF v > 255 THEN 255 ELSE v

\* image.convert('RGB') of a CMYK image
CmykToRgb(image) ==
    [mode |-> "RGB", h |-> image.h, w |-> image.w,
     px |-> [r \in 1..image.h |-> [c \in 1..image.w |->
               LET q  == image.px[r][c]
                   nk == 255 - q[4]
               IN <<Clip8(nk - MulDiv255(q[1], nk)),
                    Clip8(nk - MulDiv255(q[2], nk)),
                    Clip8(nk - MulDiv255(q[3], nk))>>]]]

\* the body of the try block for one embedded image: the record appended to
\* image_data, or nothing when a step raised and the except clause caught it
ProcessImage(img, page_index) ==
    IF img.fault = "decode" THEN <<>>
    ELSE LET image == IF img.image.mode = "CMYK"
                      THEN CmykToRgb(img.image)
                      ELSE img.image
         IN IF img.fault = "bbox" THEN <<>>
            ELSE IF img.fault = "ocr" THEN <<>>
            ELSE <<[page     |-> page_index + 1,
                    position |-> img.bbox,
                    base64   |-> [png |-> image,
                                  fault |-> IF img.fault \in {"reopen", "numpy"}
                                            THEN img.fault ELSE "none"],
                    size     |-> [width |-> image.w, height |-> image.h],
                    format   |-> img.ext,
                    ocr_text |-> img.ocr]>>

\* the inner loop with the try around the loop instead of inside it: the
\* first image that fails ends the page
RECURSIVE ImagesOfPageAbort(_, _)
ImagesOfPageAbort(image_list, page_index) ==
    IF image_list = <<>> THEN <<>>
    ELSE IF ProcessImage(Head(image_list), page_index) = <<>> THEN <<>>
    ELSE ProcessImage(Head(image_list), page_index)
           \o ImagesOfPageAbort(Tail(image_list), page_index)

\* the inner loop over the images of one page
RECURSIVE ImagesOfPage(_, _)
ImagesOfPage(image_list, page_index) ==
    IF image_list = <<>> THEN <<>>
    ELSE ProcessImage(Head(image_list), page_index)
           \o ImagesOfPage(Tail(image_list), page_index)

\* the outer loop over the pages, from index page_index (0-based) on
RECURSIVE ImagesOfPages(_, _)
ImagesOfPages(pages, page_index) ==
    IF pages = <<>> THEN <<>>
    ELSE ImagesOfPage(Head(pages).images, page_index)
           \o ImagesOfPages(Tail(pages), page_index + 1)

\* extract_images_from_pdf on the content of the file: fitz.open raises on
\* bytes that are no document, and nothing catches that
extract_images_from_pdf(content) ==
    IF ~content.valid
    THEN [raised |-> TRUE, value |-> <<>>]
    ELSE [raised |-> FALSE, value |-> ImagesOfPages(content.pages, 0)]

\* extract_text_from_pdf on the content of the file
extract_text_from_pdf(content) ==
    IF ~content.valid
    THEN [raised |-> TRUE, value |-> <<>>]
    ELSE [raised |-> FALSE,
          value |-> [i \in 1..Len(content.pages) |-> content.pages[i].text]]

----------------------------------------------------------------------------
(* werkzeug.utils.secure_filename *)

\* "_".join(s.split()): the white-space separated words of s, joined by "_"
RECURSIVE JoinWords(_)
JoinWords(s) ==
    LET t == LStrip(s)
    IN IF t = <<>> THEN <<>>
       ELSE LET k    == CHOOSE j \in 1..Len(t) :
                          /\ \A i \in 1..j : t[i] \notin SpaceChars
                          /\ (j = Len(t) \/ t[j + 1] \in SpaceChars)
                rest == JoinWords(Drop(t, k))
            IN IF rest = <<>> THEN SubSeq(t, 1, k)
               ELSE SubSeq(t, 1, k) \o <<"_">> \o rest

\* str.strip("._")
RECURSIVE StripDots(_)
StripDots(s) ==
    IF s # <<>> /\ s[1] \in {".", "_"} THEN StripDots(Tail(s))
    ELSE IF s # <<>> /\ s[Len(s)] \in {".", "_"}
         THEN StripDots(SubSeq(s, 1, Len(s) - 1))
         ELSE s

secure_filename(filename) ==
    LET noSep == [i \in 1..Len(filename) |->
                    IF filename[i] = "/" THEN " " ELSE filename[i]]
        ascii == SelectSeq(JoinWords(noSep),
                           LAMBDA c : c \in WordChars \cup {".", "-"})
    IN StripDots(ascii)

----------------------------------------------------------------------------
(* analyze_pdf: the part after the two extractions, which reads nothing but *)
(* the request's own local variables                                       *)

\* the loop body that stores chart_type whatever its value
ClassifyImageAlwaysType(img_data) ==
    IF "base64" \notin DOMAIN img_data THEN img_data
    ELSE IF img_data.base64.fault = "reopen"
    THEN img_data @@ ("is_chart" :> FALSE)
    ELSE LET res == detect_charts(img_data.base64.png,
                                  img_data.base64.fault = "numpy")
         IN img_data @@ ("is_chart" :> res[1]) @@ ("chart_type" :> res[2])

\* the body of the loop "for img_data in images"
ClassifyImage(img_data) ==
    IF "base64" \notin DOMAIN img_data THEN img_data
    ELSE IF img_data.base64.fault = "reopen"
    THEN img_data @@ ("is_chart" :> FALSE)
    ELSE LET img == img_data.base64.png
             res == detect_charts(img, img_data.base64.fault = "numpy")
             is_chart   == res[1]
             chart_type == res[2]
         IN IF chart_type # None
            THEN img_data @@ ("is_chart" :> is_chart)
                          @@ ("chart_type" :> chart_type)
            ELSE img_data @@ ("is_chart" :> is_chart)

\* the JSON body of a successful response
AnalysisResult(filename, text_by_page, images, oracle) ==
    LET sc == analyze_document_structure(text_by_page)
    IN [filename     |-> filename,
        summary      |-> summarize_text(sc.combined_text, oracle),
        structure    |-> sc.structure,
        entities     |-> extract_entities(sc.combined_text, oracle),
        images       |-> [i \in 1..Len(images) |-> ClassifyImage(images[i])],
        page_count   |-> Len(text_by_page),
        text_by_page |-> text_by_page]

----------------------------------------------------------------------------
(* The documents and file names the requests of the model submit *)

\* px[r][c][k] = base + dr*(r-1) + dc*(c-1) + dk*(k-1), as an 8-bit value
Ramp(mode, h, w, base, dr, dc, dk) ==
    [mode |-> mode, h |-> h, w |-> w,
     px |-> [r \in 1..h |-> [c \in 1..w |-> [k \in 1..Bands(mode) |->
               (base + dr * (r - 1) + dc * (c - 1) + dk * (k - 1)) % ByteRange]]]]

Embedded(fault, image, x, ocr) ==
    [fault |-> fault, image |-> image, ext |-> "png",
     bbox |-> [x |-> x, y |-> 0, width |-> image.w, height |-> image.h],
     ocr |-> ocr]

NoOracle == [ents |-> <<>>, cuts |-> {}]

\* bytes that are no PDF document
DocBad == [valid |-> FALSE, pages |-> <<>>, oracle |-> NoOracle]

\* what open(path, "wb") leaves before the first write: an empty file
EmptyFile == [valid |-> FALSE, pages |-> <<>>, oracle |-> NoOracle]

DocText ==
    [valid |-> TRUE,
     pages |-> <<[text |-> <<"I","N","T","R","O","\n","A","l"," ","m","e","t"," ","B","o"," ","#","1",".","\n">>, images |-> <<>>],
                 [text |-> <<"1","."," ","P","l","a","n","\n","a","l"," ","p","a","i","d"," "," ","4","2",".","\n">>, images |-> <<>>]>>,
     oracle |-> [ents |-> <<[text |-> <<"A","l">>, label |-> "PERSON"],
                            [text |-> <<"B","o">>, label |-> "PERSON"],
                            [text |-> <<"a","l">>, label |-> "PERSON"],
                            [text |-> <<"4","2">>, label |-> "CARDINAL"]>>,
                 cuts |-> {16, 35}]]

DocImages ==
    [valid |-> TRUE,
     pages |-> <<[text |-> <<"F","i","g","u","r","e","s","\n">>,
                  images |-> <<Embedded("none", Ramp("RGB", 2, 2, 0, 10, 10, 1), 1, <<"x","1">>),
                               Embedded("decode", Ramp("RGB", 2, 2, 0, 10, 10, 1), 2, <<>>),
                               Embedded("none", Ramp("L", 2, 2, 0, 10, 10, 0), 3, <<>>),
                               Embedded("numpy", Ramp("RGB", 2, 2, 0, 10, 10, 1), 4, <<>>)>>],
                 [text |-> <<>>,
                  images |-> <<Embedded("reopen", Ramp("RGB", 2, 2, 0, 10, 10, 1), 5, <<>>),
                               Embedded("ocr", Ramp("RGB", 2, 2, 0, 10, 10, 1), 6, <<>>),
                               Embedded("none", Ramp("CMYK", 2, 2, 0, 40, 7, 1), 7, <<>>)>>]>>,
     oracle |-> [ents |-> <<[text |-> <<"B","o">>, label |-> "ORG"]>>, cuts |-> {}]]

DocChart ==
    [valid |-> TRUE,
     pages |-> <<[text |-> <<"S","a","l","e","s"," ","C","h","a","r","t","\n">>,
                  images |-> <<Embedded("none", Ramp("RGBA", 2, 3, 5, 10, 5, 1), 1, <<>>)>>]>>,
     oracle |-> NoOracle]

Docs == {DocBad, DocText, DocImages, DocChart}

FileNames == {<<>>, <<"a">>, <<"b">>, <<".", ".", "/", "a">>, <<"/">>}

Requests == {"A", "B"}

\* what a client can send: no file part, or a file part with name and bytes
Submissions ==
    {[has_file |-> FALSE, filename |-> <<>>, doc |-> DocBad]}
      \cup [has_file : {TRUE}, filename : FileNames, doc : Docs]

----------------------------------------------------------------------------
(* The /analyze handler, one process per request in flight.  The server    *)
(* runs handlers in threads of one process; they share the upload folder.  *)

NoLocal ==
    [filename |-> <<>>, text_by_page |-> <<>>, oracle |-> NoOracle,
     images |-> <<>>]

NoResponse == [status |-> 0, kind |-> "none", body |-> [error |-> ""]]

\* jsonify({"error": message}), status
ErrorResponse(status, message) ==
    [status |-> status, kind |-> "json", body |-> [error |-> message]]

\* an exception leaves the view function: the server's 500 page, not JSON
UnhandledException ==
    [status |-> 500, kind |-> "html", body |-> [error |-> ""]]

Init ==
    /\ uploads = <<>>
    /\ pc = [r \in Requests |-> "start"]
    /\ req \in [Requests -> Submissions]
    /\ local = [r \in Requests |-> NoLocal]
    /\ response = [r \in Requests |-> NoResponse]
    /\ arg = None
    /\ ret = None
    /\ phase = "idle"

Finish(r, resp) ==
    /\ response' = [response EXCEPT ![r] = resp]
    /\ pc' = [pc EXCEPT ![r] = "done"]

\* lines 251-259: the two input checks, secure_filename, the path
Validate(r) ==
    /\ pc[r] = "start"
    /\ IF ~req[r].has_file
       THEN Finish(r, ErrorResponse(400, "No file part")) /\ UNCHANGED local
       ELSE IF req[r].filename = <<>>
       THEN Finish(r, ErrorResponse(400, "No selected file")) /\ UNCHANGED local
       ELSE /\ local' = [local EXCEPT
                           ![r].filename = secure_filename(req[r].filename)]
            /\ pc' = [pc EXCEPT ![r] = "save"]
            /\ UNCHANGED response
    /\ UNCHANGED <<uploads, req, arg, ret, phase>>

\* line 260, file.save: open(file_path, "wb") truncates the file; a name that
\* sanitizes to "" makes file_path the upload folder, and open raises
SaveOpen(r) ==
    /\ pc[r] = "save"
    /\ IF local[r].filename = <<>>
       THEN Finish(r, UnhandledException) /\ UNCHANGED uploads
       ELSE /\ uploads' = (local[r].filename :> EmptyFile) @@ uploads
            /\ pc' = [pc EXCEPT ![r] = "write"]
            /\ UNCHANGED response
    /\ UNCHANGED <<req, local, arg, ret, phase>>

\* line 260, file.save: the bytes are copied into the file
SaveWrite(r) ==
    /\ pc[r] = "write"
    /\ uploads' = (local[r].filename :> req[r].doc) @@ uploads
    /\ pc' = [pc EXCEPT ![r] = "text"]
    /\ UNCHANGED <<req, local, response, arg, ret, phase>>

\* line 263: the file at file_path is opened and its pages are read; the
\* document parsed is the content the file has when it is opened
ExtractText(r) ==
    /\ pc[r] = "text"
    /\ LET content == uploads[local[r].filename]
           res     == extract_text_from_pdf(content)
       IN IF res.raised
          THEN Finish(r, UnhandledException) /\ UNCHANGED local
          ELSE /\ local' = [local EXCEPT ![r].text_by_page = res.value,
                                         ![r].oracle = content.oracle]
               /\ pc' = [pc EXCEPT ![r] = "images"]
               /\ UNCHANGED response
    /\ UNCHANGED <<uploads, req, arg, ret, phase>>

\* line 269: the file at file_path is opened again and its images are read
ExtractImages(r) ==
    /\ pc[r] = "images"
    /\ LET res == extract_images_from_pdf(uploads[local[r].filename])
       IN IF res.raised
          THEN Finish(r, UnhandledException) /\ UNCHANGED local
          ELSE /\ local' = [local EXCEPT ![r].images = res.value]
               /\ pc' = [pc EXCEPT ![r] = "respond"]
               /\ UNCHANGED response
    /\ UNCHANGED <<uploads, req, arg, ret, phase>>

\* lines 266, 272-300: structure, chart detection, entities, summary, jsonify
Respond(r) ==
    /\ pc[r] = "respond"
    /\ Finish(r, [status |-> 200, kind |-> "json",
                  body |-> AnalysisResult(local[r].filename,
                                          local[r].text_by_page,
                                          local[r].images, local[r].oracle)])
    /\ UNCHANGED <<uploads, req, local, arg, ret, phase>>

Next ==
    \E r \in Requests :
        \/ Validate(r)
        \/ SaveOpen(r)
        \/ SaveWrite(r)
        \/ ExtractText(r)
        \/ ExtractImages(r)
        \/ Respond(r)

Spec == Init /\ [][Next]_vars

----------------------------------------------------------------------------
(* Specifications that call one pipeline stage on an input drawn from a    *)
(* bounded family: `arg` is the argument, `ret` the value returned.        *)

\* no request is in flight
ServerIdle ==
    /\ uploads = <<>>
    /\ pc = [r \in Requests |-> "off"]
    /\ req = [r \in Requests |->
                [has_file |-> FALSE, filename |-> <<>>, doc |-> DocBad]]
    /\ local = [r \in Requests |-> NoLocal]
    /\ response = [r \in Requests |-> NoResponse]

ServerVars == <<uploads, pc, req, local, response>>

\* all sequences over S of length at most n
SeqsUpTo(S, n) == UNION {[1..k -> S] : k \in 0..n}

----------------------------------------------------------------------------
(* analyze_document_structure on pages of heading-like and ordinary lines  *)

MaxLines == 2
MaxOver  == 1

\* prefix, padded with the character pad to the length total
Line(prefix, pad, total) == prefix \o Rep(pad, total - Len(prefix))

LinePrefixes ==
    {<<<<"A","B">>, "C">>, <<<<"1","."," ","A">>, "b">>, <<<<"A">>, "b">>, <<<<"A","b"," ","C">>, "d">>,
     <<<<"A","b"," ","C","d"," ","E","f"," ","G","h"," ","I">>, "j">>, <<<<"a","b">>, "c">>, <<<<"1",".","A">>, "b">>, <<<<" "," ","A","B">>, "C">>}

LineLengths ==
    {Len(<<"A","b"," ","C","d"," ","E","f"," ","G","h"," ","I">>)} \cup ((HeadingMaxLen - 1)..(HeadingMaxLen + MaxOver))

StructureLines ==
    {Line(p[1], p[2], n) : p \in LinePrefixes, n \in LineLengths}
      \cup {<<>>, <<"7"," ","+"," ","7">>}

\* the lines, each ended by a newline as page.get_text() ends them
RECURSIVE JoinLines(_)
JoinLines(lines) ==
    IF lines = <<>> THEN <<>>
    ELSE Head(lines) \o <<"\n">> \o JoinLines(Tail(lines))

\* at most n lines, on one page or split into two pages after the first `cut`
StructureInputs(n) ==
    {<<JoinLines(Take(ls, cut)), JoinLines(Drop(ls, cut))>> :
        ls \in SeqsUpTo(StructureLines, n), cut \in 0..n}
      \cup {<<JoinLines(ls)>> : ls \in SeqsUpTo(StructureLines, n)}

InitStructure ==
    /\ ServerIdle
    /\ arg \in StructureInputs(MaxLines)
    /\ ret = None
    /\ phase = "called"

CallStructure ==
    /\ phase = "called"
    /\ ret' = analyze_document_structure(arg)
    /\ phase' = "returned"
    /\ UNCHANGED <<arg, ServerVars>>

SpecStructure == InitStructure /\ [][CallStructure]_vars

\* the heading rule as the specification words it: the length bound guards
\* all three patterns
C3_IsHeading(line) ==
    /\ Len(line) < HeadingMaxLen
    /\ (IsUpper(line) \/ MatchEnumerated(line) \/ MatchTitleCase(line))

\* the sections that rule opens on the pages from number `page` on
RECURSIVE C3_Sections(_, _)
C3_Sections(pages, page) ==
    IF pages = <<>> THEN <<>>
    ELSE LET lines == SplitLines(Head(pages))
             stripped == [i \in 1..Len(lines) |-> Strip(lines[i])]
             heads == SelectSeq(stripped, C3_IsHeading)
         IN [i \in 1..Len(heads) |-> [heading |-> heads[i], page |-> page]]
              \o C3_Sections(Tail(pages), page + 1)

\* C3: a stripped line opens a section if and only if it is shorter than 100
\* characters and is all upper-case, or has an enumerated prefix, or is a
\* 1-4 word Title-Case phrase; so no line of 100 or more characters opens one
C3_HeadingRule ==
    phase = "returned" =>
        /\ ret.structure.sections = C3_Sections(arg, 1)
        /\ \A i \in 1..Len(ret.structure.sections) :
               Len(ret.structure.sections[i].heading) < HeadingMaxLen

----------------------------------------------------------------------------
(* extract_entities on sequences of recognizer entities *)

MaxEnts == 3

EntityTexts == {<<"A","l">>, <<"A","L">>, <<"a","l">>, <<" ","A","l">>, <<"a">>, <<" ","a"," ">>, <<"4","2">>, <<"B","o">>}
EntityLabels == {"PERSON", "ORG"}
RecognizerEntities == [text : EntityTexts, label : EntityLabels]

EntityInputs(n) ==
    [text : {<<"A","l"," ","m","e","t"," ","A","L",","," ","4","2"," ","t","i","m","e","s",".">>},
     oracle : [ents : SeqsUpTo(RecognizerEntities, n), cuts : {{}}]]

InitEntities ==
    /\ ServerIdle
    /\ arg \in EntityInputs(MaxEnts)
    /\ ret = None
    /\ phase = "called"

CallEntities ==
    /\ phase = "called"
    /\ ret' = extract_entities(arg.text, arg.oracle)
    /\ phase' = "returned"
    /\ UNCHANGED <<arg, ServerVars>>

SpecEntities == InitEntities /\ [][CallEntities]_vars

\* the deduplication key the specification names: (lower-cased text, label)
C2_Key(e) == <<[i \in 1..Len(e.text) |->
                  IF e.text[i] \in UpperChars
                  THEN LowerSeq[CHOOSE k \in 1..26 : UpperSeq[k] = e.text[i]]
                  ELSE e.text[i]],
               e.label>>

\* a recognizer entity survives the filters: its trimmed text is longer than
\* one character and is not purely numeric
C2_Survives(e) ==
    /\ Len(Strip(e.text)) > 1
    /\ ~(\A i \in 1..Len(Strip(e.text)) : Strip(e.text)[i] \in DigitChars)

\* the indices of the surviving entities that are the first of their key
C2_Kept(ents) ==
    {i \in 1..Len(ents) :
        /\ C2_Survives(ents[i])
        /\ \A j \in 1..(i - 1) :
               C2_Survives(ents[j]) => C2_Key(ents[j]) # C2_Key(ents[i])}

\* the subsequence of s at the indices in idx, from index i on
RECURSIVE C2_SubAt(_, _, _)
C2_SubAt(s, idx, i) ==
    IF i > Len(s) THEN <<>>
    ELSE (IF i \in idx THEN <<s[i]>> ELSE <<>>) \o C2_SubAt(s, idx, i + 1)

\* C2: the result holds no two entries with the same (lower-cased text, label)
\* key, and is exactly the subsequence of the surviving recognizer entities
\* that keeps the first occurrence of each key, in recognizer order
C2_Dedup ==
    phase = "returned" =>
        /\ \A i, j \in 1..Len(ret) :
               i # j => C2_Key(ret[i]) # C2_Key(ret[j])
        /\ ret = C2_SubAt(arg.oracle.ents, C2_Kept(arg.oracle.ents), 1)

\* a call on a full-length sequence that kept one entity and dropped a later
\* one that differs from it only in case
C2_Witness ==
    /\ phase = "returned"
    /\ Len(arg.oracle.ents) = MaxEnts
    /\ Len(ret) < Len(arg.oracle.ents)
    /\ \E i, j \in 1..Len(arg.oracle.ents) :
           /\ i < j
           /\ arg.oracle.ents[i].text # arg.oracle.ents[j].text
           /\ C2_Key(arg.oracle.ents[i]) = C2_Key(arg.oracle.ents[j])
           /\ C2_Survives(arg.oracle.ents[i])
           /\ ret = <<arg.oracle.ents[i]>>

----------------------------------------------------------------------------
(* summarize_text on texts of k sentences: the first of length n1, the     *)
(* others of length n, each ended by `term`, separated by `sep`, and then  *)
(* one more sentence of length `tail` when tail > 0                        *)

MaxSents  == 6
MaxStride == 2

Sentence(n, term) == <<"A">> \o Rep("b", n - 1 - Len(term)) \o term

RECURSIVE Sentences(_, _, _, _, _)
Sentences(n1, n, k, term, sep) ==
    IF k <= 1 THEN Sentence(n1, term)
    ELSE Sentences(n1, n, k - 1, term, sep) \o sep \o Sentence(n, term)

\* the positions at which a sentence of a cleaned text of that family ends
SentenceEnds(clean) ==
    SelectSeq([i \in 1..Len(clean) |-> i],
              LAMBDA i : /\ clean[i] = "."
                         /\ (i = Len(clean) \/ clean[i + 1] = " "))

\* the segmenter's choice: every stride-th of those ends, none for stride 0
CutsOf(text, stride) ==
    LET ends == SentenceEnds(Take(clean_text(text), SummaryTextLimit))
    IN IF stride = 0 THEN {}
       ELSE {ends[i] : i \in {j \in 1..Len(ends) : j % stride = 0}}

FirstLengths ==
    {6} \cup ((SummaryMinLen - 45)..(SummaryMinLen - 43))
        \cup {SummarySourceLen - 25, SummarySourceLen - 24}
        \cup {SummaryFallbackLen - 41}

RestLengths == {4, 10, 20}

TailLengths == {0, SummaryFallbackLen}

SummaryTexts(maxSents) ==
    {Sentences(n1, n, k, term, sep)
        \o (IF tail = 0 THEN <<>> ELSE sep \o Sentence(tail, term)) :
        n1 \in FirstLengths, n \in RestLengths, k \in 1..maxSents,
        term \in {<<".">>, Ellipsis}, sep \in {<<" ">>, <<"\n", " ", "#">>},
        tail \in TailLengths}

SummaryInputs(maxSents, maxStride) ==
    {[text |-> t, oracle |-> [ents |-> <<>>, cuts |-> CutsOf(t, stride)]] :
        t \in SummaryTexts(maxSents), stride \in 0..maxStride}

InitSummary ==
    /\ ServerIdle
    /\ arg \in SummaryInputs(MaxSents, MaxStride)
    /\ ret = None
    /\ phase = "called"

CallSummary ==
    /\ phase = "called"
    /\ ret' = summarize_text(arg.text, arg.oracle)
    /\ phase' = "returned"
    /\ UNCHANGED <<arg, ServerVars>>

SpecSummary == InitSummary /\ [][CallSummary]_vars

\* the cleaned text, the first-5-sentences summary, and the two conditions
C8_Clean == clean_text(arg.text)
C8_First5 ==
    JoinSpace(Take(nlp(Take(C8_Clean, SummaryTextLimit), arg.oracle).sents, 5))
C8_Short == Len(C8_First5) < 100 /\ Len(C8_Clean) > 100
C8_Prefix == Take(C8_Clean, 300) \o <<".", ".", ".">>

\* C8 as stated: the summary equals the first 300 characters of the cleaned
\* text followed by "..." if and only if the first-5-sentences summary is
\* shorter than 100 characters and the cleaned text longer than 100; in every
\* other case the first-5-sentences summary is returned unchanged
C8_FallbackIff ==
    phase = "returned" =>
        /\ (ret = C8_Prefix) <=> C8_Short
        /\ ~C8_Short => ret = C8_First5

\* C8 as amended: when the first-5-sentences summary is shorter than 100
\* characters and the cleaned text longer than 100, the summary is the first
\* 300 characters of the cleaned text followed by "..."; in every other case
\* it is the first-5-sentences summary, unchanged
C8_Fallback ==
    phase = "returned" =>
        /\ C8_Short => ret = C8_Prefix
        /\ ~C8_Short => ret = C8_First5

\* a call that took the fallback on a cleaned text of more than 300 characters
C8_Witness ==
    /\ phase = "returned"
    /\ C8_Short
    /\ Len(C8_Clean) > 300
    /\ ret = C8_Prefix
    /\ ret # C8_First5

----------------------------------------------------------------------------
(* detect_charts on ramp bitmaps of every mode *)

MaxSide == 2
BigSide == 8

ChartSides == (1..MaxSide) \cup {BigSide - 1, BigSide}

ChartImages(sides) ==
    {Ramp(mode, h, w, base, dr, dc, dk) :
        mode \in {"L", "P", "LA", "RGB", "RGBA"},
        h \in sides, w \in sides,
        base \in {0, 100}, dr \in {0, 7, 10, 246}, dc \in {0, 10, 12, 246},
        dk \in {0, 1}}

ChartInputs(sides) == [image : ChartImages(sides), raises : BOOLEAN]

InitCharts ==
    /\ ServerIdle
    /\ arg \in ChartInputs(ChartSides)
    /\ ret = None
    /\ phase = "called"

CallCharts ==
    /\ phase = "called"
    /\ ret' = detect_charts(arg.image, arg.raises)
    /\ phase' = "returned"
    /\ UNCHANGED <<arg, ServerVars>>

SpecCharts == InitCharts /\ [][CallCharts]_vars

\* C4: detect_charts returns (False, None) for every single-channel image and
\* for every single-channel-with-alpha (two-band) image, whatever its pixels
C4_GrayRejected ==
    phase = "returned" /\ Len(arg.image.px[1][1]) \in {1, 2}
        => ret = <<FALSE, None>>

\* |a - b| of two pixel values, without wrap-around
C10_AbsDiff(a, b) == IF a >= b THEN a - b ELSE b - a

\* the sum of |a - b| over the vertically adjacent values of a 3-band bitmap
C10_EdgeH(image) ==
    SumSeq([r \in 1..(image.h - 1) |->
              SumSeq([c \in 1..image.w |->
                        SumSeq([k \in 1..3 |->
                                  C10_AbsDiff(image.px[r][c][k],
                                              image.px[r + 1][c][k])])])])

\* the sum of |a - b| over the horizontally adjacent values
C10_EdgeV(image) ==
    SumSeq([r \in 1..image.h |->
              SumSeq([c \in 1..(image.w - 1) |->
                        SumSeq([k \in 1..3 |->
                                  C10_AbsDiff(image.px[r][c][k],
                                              image.px[r][c + 1][k])])])])

\* the reference rule on those sums; edge_ratio = edge_h / (edge_v + 1e-10),
\* compared as in RatioAbove and RatioBelow
C10_Reference(image) ==
    LET eh == C10_EdgeH(image)
        ev == C10_EdgeV(image)
        colors == Cardinality({image.px[r][c] :
                                  r \in 1..image.h, c \in 1..image.w})
        chart == colors < 50 /\ 2 * eh > ev /\ eh <= 2 * ev
    IN IF ~chart THEN <<FALSE, None>>
       ELSE IF 5 * eh > 6 * ev THEN <<TRUE, "bar_chart">>
       ELSE IF 5 * eh <= 4 * ev THEN <<TRUE, "line_chart">>
       ELSE <<TRUE, "other_chart">>

\* C10: for every 3-band bitmap of 8-bit values detect_charts returns what the
\* reference rule gives, with edge_h and edge_v the sums of the true absolute
\* differences of vertically and horizontally adjacent values
C10_MatchesReference ==
    phase = "returned" /\ arg.image.mode = "RGB" /\ ~arg.raises
        => ret = C10_Reference(arg.image)

----------------------------------------------------------------------------
(* extract_images_from_pdf on documents of at most MaxImages images, each  *)
(* with its fault, laid out on two pages                                   *)

MaxImages == 3

ImageFaults == {"none", "decode", "bbox", "ocr", "numpy"}

\* the i-th embedded image of a document of the family
FamilyImage(fault, i) ==
    Embedded(fault,
             IF i % 2 = 1 THEN Ramp("RGB", 2, 2, i, 10, 10, 1)
                          ELSE Ramp("CMYK", 1, 2, i, 40, 7, 1),
             i,
             IF i % 2 = 1 THEN <<"x">> ELSE <<>>)

\* the document whose i-th image has fault fs[i], the first `cut` images on
\* page 1 and the others on page 2
FamilyDoc(fs, cut) ==
    LET imgs == [i \in 1..Len(fs) |-> FamilyImage(fs[i], i)]
    IN [valid |-> TRUE,
        pages |-> <<[text |-> <<>>, images |-> Take(imgs, cut)],
                    [text |-> <<>>, images |-> Drop(imgs, cut)]>>,
        oracle |-> NoOracle]

ImageInputs(n) ==
    {FamilyDoc(fs, cut) : fs \in SeqsUpTo(ImageFaults, n), cut \in 0..n}
      \cup {DocBad}

InitImages ==
    /\ ServerIdle
    /\ arg \in ImageInputs(MaxImages)
    /\ ret = None
    /\ phase = "called"

CallImages ==
    /\ phase = "called"
    /\ ret' = extract_images_from_pdf(arg)
    /\ phase' = "returned"
    /\ UNCHANGED <<arg, ServerVars>>

SpecImages == InitImages /\ [][CallImages]_vars

\* the embedded images of the pages from number `page` on, in source order,
\* each with its page number
RECURSIVE C1_Embedded(_, _)
C1_Embedded(pages, page) ==
    IF pages = <<>> THEN <<>>
    ELSE [i \in 1..Len(Head(pages).images) |->
             [page |-> page, img |-> Head(pages).images[i]]]
           \o C1_Embedded(Tail(pages), page + 1)

\* the processing of the image raised: at the decode, or at a later step of
\* the same try block
C1_Failed(e) == e.img.fault \in {"decode", "bbox", "ocr"}

C1_Good(doc) == SelectSeq(C1_Embedded(doc.pages, 1), LAMBDA e : ~C1_Failed(e))

\* C1: whatever subset of the embedded images fails, no exception leaves the
\* extractor and the list returned holds exactly one record for every image
\* that did not fail, in source order (page order, then order on the page)
C1_FailureIsolation ==
    phase = "returned" /\ arg.valid =>
        /\ ~ret.raised
        /\ Len(ret.value) = Len(C1_Good(arg))
        /\ \A i \in 1..Len(ret.value) :
               /\ ret.value[i].page = C1_Good(arg)[i].page
               /\ ret.value[i].position = C1_Good(arg)[i].img.bbox
               /\ ret.value[i].format = C1_Good(arg)[i].img.ext
               /\ ret.value[i].ocr_text = C1_Good(arg)[i].img.ocr

\* a call on three images, the second of which fails to decode, that
\* returned the records of the first and the third
C1_Witness ==
    /\ phase = "returned"
    /\ arg.valid
    /\ Len(C1_Embedded(arg.pages, 1)) = 3
    /\ C1_Embedded(arg.pages, 1)[1].img.fault = "none"
    /\ C1_Embedded(arg.pages, 1)[2].img.fault = "decode"
    /\ C1_Embedded(arg.pages, 1)[3].img.fault = "none"
    /\ C1_Embedded(arg.pages, 1)[1].page = C1_Embedded(arg.pages, 1)[2].page
    /\ Len(ret.value) = 2
    /\ ret.value[1].position.x = 1
    /\ ret.value[2].position.x = 3

\* C5: an image that decodes but on which text recognition fails keeps its
\* record, with ocr_text = ""; only an image that fails to decode is omitted
C5_OcrDegrades ==
    phase = "returned" /\ arg.valid =>
        /\ ~ret.raised
        /\ \A e \in {C1_Embedded(arg.pages, 1)[i] :
                        i \in 1..Len(C1_Embedded(arg.pages, 1))} :
               /\ e.img.fault = "ocr" =>
                      \E i \in 1..Len(ret.value) :
                          /\ ret.value[i].position = e.img.bbox
                          /\ ret.value[i].page = e.page
                          /\ ret.value[i].ocr_text = <<>>
               /\ e.img.fault = "decode" =>
                      \A i \in 1..Len(ret.value) :
                          ret.value[i].position # e.img.bbox

----------------------------------------------------------------------------
(* Claims about the /analyze requests (specification Spec) *)

ResultFields ==
    {"filename", "summary", "structure", "entities", "images", "page_count",
     "text_by_page"}

\* request r submitted a file, under a usable name, whose bytes are no document
C6_ParseFailure(r) ==
    /\ req[r].has_file
    /\ req[r].filename # <<>>
    /\ secure_filename(req[r].filename) # <<>>
    /\ ~req[r].doc.valid

\* C6: a request whose bytes cannot be opened as a document ends with a
\* structured error payload: a JSON body with an error message that is not
\* one of the client-input messages, and none of the AnalysisResult fields;
\* never with a partial result or an unhandled exception
C6_StructuredError ==
    \A r \in Requests :
        pc[r] = "done" /\ C6_ParseFailure(r) =>
            /\ response[r].kind = "json"
            /\ response[r] # UnhandledException
            /\ DOMAIN response[r].body \cap ResultFields = {}
            /\ "error" \in DOMAIN response[r].body
            /\ response[r].body.error \notin {"", "No file part", "No selected file"}

\* how the request ends when it is the only one the server handles
C7_Alone(sub) ==
    IF ~sub.has_file THEN ErrorResponse(400, "No file part")
    ELSE IF sub.filename = <<>> THEN ErrorResponse(400, "No selected file")
    ELSE IF secure_filename(sub.filename) = <<>> THEN UnhandledException
    ELSE IF ~sub.doc.valid THEN UnhandledException
    ELSE [status |-> 200, kind |-> "json",
          body |-> AnalysisResult(secure_filename(sub.filename),
                                  extract_text_from_pdf(sub.doc).value,
                                  extract_images_from_pdf(sub.doc).value,
                                  sub.doc.oracle)]

\* C7: two concurrent requests that submit different documents, under any
\* file names, do not interfere: each ends as it would alone, its pages,
\* structure, entities and images computed from its own document
C7_NonInterference ==
    (\A r \in Requests : pc[r] = "done")
      /\ (\A r1, r2 \in Requests : r1 # r2 => req[r1].doc # req[r2].doc)
        => \A r \in Requests : response[r] = C7_Alone(req[r])

\* C9: in every successful response every image record has an is_chart
\* field, and has a chart_type only if its is_chart is true
C9_ImageRecord ==
    \A r \in Requests :
        pc[r] = "done" /\ response[r].status = 200 =>
            \A i \in 1..Len(response[r].body.images) :
                LET rec == response[r].body.images[i]
                IN /\ "is_chart" \in DOMAIN rec
                   /\ rec.is_chart \in BOOLEAN
                   /\ "chart_type" \in DOMAIN rec =>
                          /\ rec.is_chart = TRUE
                          /\ rec.chart_type \in
                                 {"bar_chart", "line_chart", "other_chart"}

\* a successful response with a chart record that has its chart_type, and
\* records without one from the grayscale rejection, from an error inside
\* detect_charts and from a failure to re-open the image
C9_Witness ==
    \E r \in Requests :
        /\ pc[r] = "done"
        /\ response[r].status = 200
        /\ LET recs == response[r].body.images
           IN /\ \E i \in 1..Len(recs) :
                     recs[i].is_chart /\ "chart_type" \in DOMAIN recs[i]
              /\ \E i \in 1..Len(recs) :
                     /\ recs[i].base64.png.mode = "L"
                     /\ ~recs[i].is_chart
                     /\ "chart_type" \notin DOMAIN recs[i]
              /\ \E i \in 1..Len(recs) :
                     /\ recs[i].base64.fault = "numpy"
                     /\ ~recs[i].is_chart
                     /\ "chart_type" \notin DOMAIN recs[i]
              /\ \E i \in 1..Len(recs) :
                     /\ recs[i].base64.fault = "reopen"
                     /\ ~recs[i].is_chart
                     /\ "chart_type" \notin DOMAIN recs[i]

----------------------------------------------------------------------------
(* extract_entities on texts around the 100,000-character bound: a lead,   *)
(* a run of one letter, and a tail                                          *)

MaxShort == 4
MaxNear == 1

\* the pieces put before and after the run of letters
TextLeads == {<<>>, <<"#">>, <<" ", " ">>, <<"A", "\n", "\n">>}
TextTails == {<<>>, <<" ", "b">>, <<"#", "b">>}

\* run lengths: short texts, and texts that end on either side of the bound
RunLengths(maxShort, maxNear) ==
    (0..maxShort) \cup ((EntityTextLimit - maxNear)..(EntityTextLimit + maxNear))

BoundInputs(maxShort, maxNear) ==
    [lead : TextLeads, run : RunLengths(maxShort, maxNear), tail : TextTails]

\* the text an input stands for
BoundText(a) == a.lead \o Rep("a", a.run) \o a.tail

InitBound ==
    /\ ServerIdle
    /\ arg \in BoundInputs(MaxShort, MaxNear)
    /\ ret = None
    /\ phase = "called"

\* the Doc's text is the string the recognizer was given
CallBound ==
    /\ phase = "called"
    /\ ret' = EntityDoc(BoundText(arg), NoOracle).text
    /\ phase' = "returned"
    /\ UNCHANGED <<arg, ServerVars>>

SpecBound == InitBound /\ [][CallBound]_vars

\* C11: for every input text, the string extract_entities passes to the
\* recognizer is the first 100,000 characters of the cleaned whole text:
\* cleaning first, the length bound on the cleaned text.
C11_CleanThenTruncate ==
    phase = "returned" =>
        ret = Take(clean_text(BoundText(arg)), EntityTextLimit)

====
